---- MODULE Spec2Model ----
(***************************************************************************)
(* Model of suspension_engine.py: the BikeSetup data model with its        *)
(* validators, SuspensionCalculator (baseline settings) and                *)
(* DiagnosticAssistant (symptom -> ranked fixes), driven by the two POST   *)
(* handlers.  One behaviour is one request: Init draws the request body    *)
(* and the contents of the two reference files, the actions are the steps  *)
(* the handler runs (validation, object construction, computation).        *)
(*                                                                         *)
(* Numbers.  weight_kg is a float: it is held in half kilograms            *)
(* (WeightScale).  psi_multiplier, psi_pct and the sag fraction are floats *)
(* with two decimals: they are held in hundredths (PctScale).  int() is    *)
(* Trunc, truncation toward zero.  On the grids used here the exact        *)
(* integer arithmetic and Python's double arithmetic give the same values. *)
(***************************************************************************)
EXTENDS Integers, Sequences, FiniteSets, TLC

VARIABLES
    request,      \* the request body and query of this call
    specs_file,   \* contents of manufacturer_specs.json
    logic_file,   \* contents of suspension_logic.json
    pc,           \* position of the handler
    setup,        \* the validated BikeSetup, None until built
    specs,        \* SuspensionCalculator.specs, None until the object is built
    logic_db,     \* DiagnosticAssistant.logic_db, None until the object is built
    response      \* what the call returned or raised, None while running

vars == <<request, specs_file, logic_file, pc, setup, specs, logic_db, response>>

----------------------------------------------------------------------------
(* Python values *)

None == <<>>
Some(x) == <<x>>
IsNone(o) == Len(o) = 0
Val(o) == o[1]

EmptyDict == [k \in {} |-> 0]
Get(d, k, default) == IF k \in DOMAIN d THEN d[k] ELSE default

Max(a, b) == IF a >= b THEN a ELSE b

\* int(n / d) for d > 0: truncation toward zero
Trunc(n, d) == IF n >= 0 THEN n \div d ELSE -((-n) \div d)

WeightScale == 2
PctScale == 100

----------------------------------------------------------------------------
(* 1. Models *)

Terrains == {"flow", "jumps", "technical_roots", "mix"}
Weathers == {"dry", "wet", "mix"}
Brands == {"rockshox", "fox", "marzocchi", "ohlins", "other"}
BikeTypes == {"hardtail", "full_suspension_xc", "full_suspension_trail_enduro", "downhill"}

ClickFlags == {"has_rebound", "has_lsc", "has_hsc", "has_lsr", "has_hsr"}
CapabilityFlags == ClickFlags \cup {"has_air_spring", "tokens_adjustable"}

MinTravel == 35
MaxTravel == 250
MinWeightKg == 30
MaxWeightKg == 150

\* SuspensionComponent with the capability flags in the set on true
Component(brand, travel, on, psi) ==
    [brand |-> brand, travel_mm |-> travel,
     has_air_spring |-> "has_air_spring" \in on,
     has_rebound |-> "has_rebound" \in on,
     has_lsc |-> "has_lsc" \in on,
     has_hsc |-> "has_hsc" \in on,
     has_lsr |-> "has_lsr" \in on,
     has_hsr |-> "has_hsr" \in on,
     tokens_adjustable |-> "tokens_adjustable" \in on,
     current_psi |-> psi]

\* the flags that default to True
DefaultFlags == {"has_air_spring", "has_rebound", "tokens_adjustable"}

\* Field(..., gt=35, le=250) and the brand Literal
ValidComponent(c) ==
    /\ c.brand \in Brands
    /\ c.travel_mm > MinTravel
    /\ c.travel_mm <= MaxTravel

\* Field(..., gt=30, le=150) and the bike_type Literal
ValidRider(r) ==
    /\ r.weight_kg > MinWeightKg * WeightScale
    /\ r.weight_kg <= MaxWeightKg * WeightScale
    /\ r.bike_type \in BikeTypes

ValidConditions(c) == c.terrain \in Terrains /\ c.weather \in Weathers

\* validate_shock without the raise: a hardtail's shock is let through
validate_shock_lenient(v, data) ==
    IF "rider" \notin DOMAIN data THEN "AttributeError" ELSE "ok"

\* BikeSetup.validate_shock(v, values): "ok", "ValueError" or "AttributeError".
\* data holds the fields validated so far; a field that failed is not in it.
validate_shock(v, data) ==
    IF "rider" \notin DOMAIN data
    THEN "AttributeError"
    ELSE IF data.rider.bike_type = "hardtail" /\ ~IsNone(v)
         THEN "ValueError"
         ELSE "ok"

\* BikeSetup(**body): the fields are validated in declaration order, every
\* field is tried even after an earlier one failed, and the validator of
\* 'shock' runs only for a value that was given and passed its own
\* validation.  An exception other than ValueError leaves the validation.
BikeSetupNew(body) ==
    LET riderOk == ValidRider(body.rider)
        condOk == ValidConditions(body.conditions)
        forkOk == ValidComponent(body.fork)
        shockIn == IF body.shock_given THEN body.shock ELSE None
        shockOk == IsNone(shockIn) \/ ValidComponent(Val(shockIn))
        data == IF riderOk THEN [rider |-> body.rider] ELSE EmptyDict
        checked == IF body.shock_given /\ shockOk
                   THEN validate_shock(shockIn, data)
                   ELSE "ok"
    IN  IF checked = "AttributeError"
        THEN [kind |-> "exception", error |-> "AttributeError"]
        ELSE IF riderOk /\ condOk /\ forkOk /\ shockOk /\ checked = "ok"
             THEN [kind |-> "ok",
                   value |-> [rider |-> body.rider,
                              conditions |-> body.conditions,
                              fork |-> body.fork,
                              shock |-> shockIn]]
             ELSE [kind |-> "validation_error", error |-> "ValidationError"]

----------------------------------------------------------------------------
(* 2. SuspensionCalculator *)

\* SuspensionCalculator.__init__: a missing or unparseable file gives {}
LoadSpecs(file) ==
    IF file.status = "ok" THEN file.content ELSE EmptyDict

\* _get_dynamic_rebound with 0 for an empty table
GetDynamicReboundZero(component_data, weight) ==
    LET table == Get(component_data, "rebound_table", <<>>)
        under == {i \in 1..Len(table) : weight <= table[i].max_kg * WeightScale}
    IN  IF Len(table) = 0 THEN 0
        ELSE IF under # {} THEN table[CHOOSE i \in under : \A j \in under : i <= j].clicks
        ELSE table[Len(table)].clicks

\* _get_dynamic_rebound(component_data, weight)
GetDynamicRebound(component_data, weight) ==
    LET table == Get(component_data, "rebound_table", <<>>)
        hits == {i \in 1..Len(table) : weight <= table[i].max_kg * WeightScale}
        first == CHOOSE i \in hits : \A j \in hits : i <= j
    IN  IF Len(table) = 0 THEN 6
        ELSE IF hits # {} THEN table[first].clicks
        ELSE table[Len(table)].clicks

\* the modifiers table of calculate_baseline; psi_pct in hundredths
TerrainModifiers ==
    [flow |-> [lsc |-> 1, rebound |-> 0, psi_pct |-> 100, tip |-> "Flow"],
     jumps |-> [lsc |-> 2, hsc |-> 1, rebound |-> 1, psi_pct |-> 105, tip |-> "Jumps"],
     technical_roots |-> [lsc |-> -1, rebound |-> -1, psi_pct |-> 98, tip |-> "Roots"],
     mix |-> [lsc |-> 0, rebound |-> 0, psi_pct |-> 100, tip |-> "Balanced"]]

WeatherModifiers ==
    [dry |-> [lsc |-> 0, rebound |-> 0, psi_pct |-> 100, tip |-> ""],
     wet |-> [lsc |-> -2, rebound |-> -1, psi_pct |-> 95, tip |-> "Wet"],
     mix |-> [lsc |-> -1, rebound |-> 0, psi_pct |-> 98, tip |-> "Changeable"]]

\* brand_data of get_component_settings: the brand's entry, or the entry of
\* the fallback key when the brand's entry is missing or empty
BrandData(store, comp, comp_type) ==
    LET specs_section == Get(store, comp_type \o "s", EmptyDict)
        brand_data == Get(specs_section, comp.brand, EmptyDict)
        fallback_key == IF comp_type = "fork" THEN "rockshox" ELSE "standard_air"
    IN  IF DOMAIN brand_data = {}
        THEN Get(specs_section, fallback_key, EmptyDict)
        ELSE brand_data

\* base_psi with the operands subtracted: int(psi_mult - rider_weight)
BasePsiDifference(rider_weight, psi_mult) ==
    Trunc(psi_mult * WeightScale - rider_weight * PctScale, WeightScale * PctScale)

\* base_psi = int(rider_weight * psi_mult)
BasePsi(rider_weight, psi_mult) ==
    Trunc(rider_weight * psi_mult, WeightScale * PctScale)

\* final_psi with the two percentages added: int(base_psi * (t + w - 1))
FinalPsiAdditive(rider_weight, psi_mult, t_mod, w_mod) ==
    Trunc(Trunc(rider_weight * psi_mult, WeightScale * PctScale)
            * (Get(t_mod, "psi_pct", 100) + Get(w_mod, "psi_pct", 100) - PctScale),
          PctScale)

\* final_psi = int(base_psi * t_mod.psi_pct * w_mod.psi_pct)
FinalPsi(rider_weight, psi_mult, t_mod, w_mod) ==
    Trunc(BasePsi(rider_weight, psi_mult)
            * Get(t_mod, "psi_pct", 100) * Get(w_mod, "psi_pct", 100),
          PctScale * PctScale)

\* d[k] = v on a dictionary
Put(d, k, v) == [x \in DOMAIN d \cup {k} |-> IF x = k THEN v ELSE d[x]]

\* final_rebound = max(0, base_rebound + t_mod.rebound + w_mod.rebound)
FinalRebound(base_rebound, t_mod, w_mod) ==
    Max(0, base_rebound + Get(t_mod, "rebound", 0) + Get(w_mod, "rebound", 0))

\* final_hsr = max(0, final_rebound + 1)
FinalHsr(final_rebound) == Max(0, final_rebound + 1)

\* final_lsc without the clamp
FinalLscUnclamped(base_lsc, t_mod, w_mod) ==
    base_lsc + Get(t_mod, "lsc", 0) + Get(w_mod, "lsc", 0)

\* final_lsc = max(0, base_lsc + t_mod.lsc + w_mod.lsc)
FinalLsc(base_lsc, t_mod, w_mod) ==
    Max(0, base_lsc + Get(t_mod, "lsc", 0) + Get(w_mod, "lsc", 0))

\* final_hsc = max(0, base_hsc + t_mod.hsc + w_mod.hsc)
FinalHsc(base_hsc, t_mod, w_mod) ==
    Max(0, base_hsc + Get(t_mod, "hsc", 0) + Get(w_mod, "hsc", 0))

\* clicks with lsr set under has_rebound instead of has_lsr
ClicksLsrOnRebound(comp, final_rebound, final_lsr, final_hsr, final_lsc, final_hsc) ==
    LET m1 == IF comp.has_rebound THEN Put(EmptyDict, "rebound", final_rebound)
              ELSE EmptyDict
        m2 == IF comp.has_rebound THEN Put(m1, "lsr", final_lsr) ELSE m1
        m3 == IF comp.has_hsr THEN Put(m2, "hsr", final_hsr) ELSE m2
        m4 == IF comp.has_lsc THEN Put(m3, "lsc", final_lsc) ELSE m3
    IN  IF comp.has_hsc THEN Put(m4, "hsc", final_hsc) ELSE m4

\* the clicks dictionary: a key is set when the component's flag is on
Clicks(comp, final_rebound, final_lsr, final_hsr, final_lsc, final_hsc) ==
    LET c1 == IF comp.has_rebound THEN Put(EmptyDict, "rebound", final_rebound)
              ELSE EmptyDict
        c2 == IF comp.has_lsr THEN Put(c1, "lsr", final_lsr) ELSE c1
        c3 == IF comp.has_hsr THEN Put(c2, "hsr", final_hsr) ELSE c2
        c4 == IF comp.has_lsc THEN Put(c3, "lsc", final_lsc) ELSE c3
    IN  IF comp.has_hsc THEN Put(c4, "hsc", final_hsc) ELSE c4

\* smart_tip = f"{t_mod['tip']} {w_mod['tip']}".strip()
SmartTip(t_mod, w_mod) ==
    IF w_mod.tip = "" THEN t_mod.tip ELSE t_mod.tip \o " " \o w_mod.tip

\* get_component_settings(comp, comp_type) inside calculate_baseline
GetComponentSettings(store, bike, comp, comp_type) ==
    LET rider_weight == bike.rider.weight_kg
        t_mod == TerrainModifiers[bike.conditions.terrain]
        w_mod == WeatherModifiers[bike.conditions.weather]
        brand_data == BrandData(store, comp, comp_type)
        psi_mult == Get(brand_data, "psi_multiplier", 100)
        sag_pct == Get(Get(Get(store, "sag_targets", EmptyDict),
                           bike.rider.bike_type, EmptyDict), comp_type, 25)
        base_rebound == GetDynamicRebound(brand_data, rider_weight)
        base_lsc == Get(brand_data, "base_lsc", 2)
        base_hsc == Get(brand_data, "base_hsc", 1)
        final_rebound == FinalRebound(base_rebound, t_mod, w_mod)
        final_lsr == final_rebound
        final_hsr == FinalHsr(final_rebound)
        final_lsc == FinalLsc(base_lsc, t_mod, w_mod)
        final_hsc == FinalHsc(base_hsc, t_mod, w_mod)
    IN  [psi |-> FinalPsi(rider_weight, psi_mult, t_mod, w_mod),
         sag_mm |-> Trunc(comp.travel_mm * sag_pct, PctScale),
         sag_pct |-> Trunc(sag_pct * 100, PctScale),
         clicks |-> Clicks(comp, final_rebound, final_lsr, final_hsr,
                           final_lsc, final_hsc),
         smart_tip |-> SmartTip(t_mod, w_mod)]

\* calculate_baseline(setup): 'fork' always, 'shock' when the setup has one
CalculateBaselineOf(store, bike) ==
    LET fork == [fork |-> GetComponentSettings(store, bike, bike.fork, "fork")]
    IN  IF IsNone(bike.shock)
        THEN fork
        ELSE fork @@ [shock |-> GetComponentSettings(store, bike, Val(bike.shock), "shock")]

----------------------------------------------------------------------------
(* 3. DiagnosticAssistant *)

\* DiagnosticAssistant.__init__: any failure to load gives []
LoadLogic(file) ==
    IF file.status = "ok" THEN file.content ELSE <<>>

\* attributes every pydantic model object has besides its fields
ModelMethods == {"model_dump", "model_copy"}

\* bool(getattr(actual_comp, check, False)): a flag is its value, a string
\* is true when not empty, an int when not zero, None is false, a bound
\* method is true, and a name the object does not have gives the default
GetattrTruthy(actual_comp, check) ==
    CASE check \in CapabilityFlags -> actual_comp[check]
      [] check = "brand" -> actual_comp.brand # ""
      [] check = "travel_mm" -> actual_comp.travel_mm # 0
      [] check = "current_psi" ->
            /\ ~IsNone(actual_comp.current_psi)
            /\ Val(actual_comp.current_psi) # 0
      [] check \in ModelMethods -> TRUE
      [] OTHER -> FALSE

\* the test of one solution in the loop of diagnose_problem
SolutionApplies(actual_comp, solution) ==
    \/ solution.logic_check = "always_true"
    \/ GetattrTruthy(actual_comp, solution.logic_check)

\* valid_solutions after the loop: the solutions that apply, in list order
RECURSIVE ValidSolutions(_, _)
ValidSolutions(actual_comp, solutions) ==
    IF solutions = <<>> THEN <<>>
    ELSE LET rest == ValidSolutions(actual_comp, Tail(solutions))
         IN  IF SolutionApplies(actual_comp, Head(solutions))
             THEN <<Head(solutions)>> \o rest
             ELSE rest

\* x put in front of the entries with the same priority value
RECURSIVE InsertBeforeTies(_, _)
InsertBeforeTies(x, sorted) ==
    IF sorted = <<>> THEN <<x>>
    ELSE IF Head(sorted).priority < x.priority
         THEN <<Head(sorted)>> \o InsertBeforeTies(x, Tail(sorted))
         ELSE <<x>> \o sorted

\* x put into a list sorted by priority, behind every entry that does not
\* have a higher priority value
RECURSIVE InsertByPriority(_, _)
InsertByPriority(x, sorted) ==
    IF sorted = <<>> THEN <<x>>
    ELSE IF Head(sorted).priority <= x.priority
         THEN <<Head(sorted)>> \o InsertByPriority(x, Tail(sorted))
         ELSE <<x>> \o sorted

\* list.sort(key=lambda x: x['priority']): ascending and stable
RECURSIVE SortByPriority(_)
SortByPriority(list) ==
    IF list = <<>> THEN <<>>
    ELSE InsertByPriority(list[Len(list)], SortByPriority(SubSeq(list, 1, Len(list) - 1)))

\* the lookup with the first record as the default instead of None
FindProblemOrFirst(db, symptom_id) ==
    LET same == {i \in 1..Len(db) : db[i].symptom_id = symptom_id}
    IN  IF same # {} THEN Some(db[CHOOSE i \in same : \A j \in same : i <= j])
        ELSE IF Len(db) > 0 THEN Some(db[1])
        ELSE None

\* next((item for item in logic_db if item["symptom_id"] == symptom_id), None)
FindProblem(db, symptom_id) ==
    LET matches == {i \in 1..Len(db) : db[i].symptom_id = symptom_id}
    IN  IF matches = {} THEN None
        ELSE Some(db[CHOOSE i \in matches : \A j \in matches : i <= j])

\* actual_comp with the fork standing in for a missing shock
ActualCompOrFork(bike, comp_name) ==
    IF comp_name = "fork" \/ IsNone(bike.shock) THEN Some(bike.fork) ELSE bike.shock

\* actual_comp = setup.fork if comp_name == 'fork' else setup.shock
ActualComp(bike, comp_name) ==
    IF comp_name = "fork" THEN Some(bike.fork) ELSE bike.shock

UnknownSymptom == [error |-> "Nepoznat simptom."]
ComponentMissing == [error |-> "Komponenta ne postoji na biciklu."]
NoSolution == [result |-> "Nema rjesenja, posjeti servis."]

\* diagnose_problem(setup, symptom_id)
DiagnoseProblemOf(db, bike, symptom_id) ==
    LET found == FindProblem(db, symptom_id)
        problem == Val(found)
        actual_comp == ActualComp(bike, problem.required_component)
        valid_solutions ==
            SortByPriority(ValidSolutions(Val(actual_comp), problem.solutions))
    IN  IF IsNone(found) THEN UnknownSymptom
        ELSE IF IsNone(actual_comp) THEN ComponentMissing
        ELSE IF valid_solutions = <<>> THEN NoSolution
        ELSE [symptom |-> problem.symptom_name,
              primary_fix |-> valid_solutions[1],
              secondary_fix |-> IF Len(valid_solutions) > 1
                                THEN Some(valid_solutions[2]) ELSE None]

----------------------------------------------------------------------------
(* Reference files and request bodies the calls are run on *)

MaxBaseClicks == 2
BaseClicks == (-1)..MaxBaseClicks
Multipliers == {90, 100, 125}

\* one brand entry of manufacturer_specs.json
BrandEntry(m, l, h) ==
    [psi_multiplier |-> m, base_lsc |-> l, base_hsc |-> h,
     rebound_table |-> <<[max_kg |-> 70, clicks |-> h],
                         [max_kg |-> 75, clicks |-> l + 1]>>]

SagTargets ==
    [full_suspension_trail_enduro |-> [fork |-> 20, shock |-> 30],
     hardtail |-> [fork |-> 28]]

\* the brand's own entry, no fallback key, no sag targets
StoreBrand(d) == [forks |-> [fox |-> d], shocks |-> [fox |-> d]]

\* only the fallback keys, an empty entry for fox, and sag targets
StoreFallback(d) ==
    [forks |-> [rockshox |-> d, fox |-> EmptyDict],
     shocks |-> [standard_air |-> d],
     sag_targets |-> SagTargets]

\* entries with keys left out
StorePartial ==
    [forks |-> [other |-> [psi_multiplier |-> 110],
                ohlins |-> [rebound_table |-> <<>>, base_hsc |-> 0]],
     sag_targets |-> SagTargets]

BrandEntries ==
    {BrandEntry(m, l, h) : m \in Multipliers, l \in BaseClicks, h \in BaseClicks}

MissingFile == [status |-> "missing", content |-> EmptyDict]
UnparseableFile == [status |-> "unparseable", content |-> EmptyDict]
File(content) == [status |-> "ok", content |-> content]

FullStore == StoreFallback(BrandEntry(100, 2, 1))

SpecsFiles ==
    {MissingFile, UnparseableFile, File(EmptyDict), File(StorePartial)}
    \cup {File(StoreBrand(d)) : d \in BrandEntries}
    \cup {File(StoreFallback(d)) : d \in BrandEntries}

\* weights in half kilograms: 30.5, 75, 80.5 and 150 are valid
ValidWeights == {61, 150, 161, 300}
InvalidWeights == {60, 301}

Rider(w, t) == [weight_kg |-> w, bike_type |-> t, skill_level |-> "intermediate"]
Conditions(t, w) == [terrain |-> t, weather |-> w]
Body(rider, conditions, fork, given, shock) ==
    [rider |-> rider, conditions |-> conditions, fork |-> fork,
     shock_given |-> given, shock |-> shock]

DefaultFork == Component("rockshox", 160, DefaultFlags, None)
RearShock == Component("fox", 200, DefaultFlags \cup {"has_lsc"}, Some(180))

\* shock as the body gives it: left out, null, or a component
ShockInputs(comps) ==
    {<<FALSE, None>>, <<TRUE, None>>} \cup {<<TRUE, Some(c)>> : c \in comps}

\* bodies around the validation limits
ValidationBodies ==
    {Body(Rider(w, t), Conditions("mix", "dry"), Component("rockshox", tr, DefaultFlags, None),
          s[1], s[2]) :
        w \in ValidWeights \cup InvalidWeights, t \in BikeTypes,
        tr \in {MinTravel, MaxTravel, MaxTravel + 1},
        s \in ShockInputs({RearShock, Component("fox", MinTravel, DefaultFlags, None)})}

\* bodies for the arithmetic: every terrain, weather and brand
ArithmeticBodies ==
    {Body(Rider(w, t), Conditions(te, we), Component(b, 160, ClickFlags, None),
          t # "hardtail", IF t = "hardtail" THEN None ELSE Some(RearShock)) :
        w \in ValidWeights, t \in BikeTypes, te \in Terrains, we \in Weathers,
        b \in Brands}

\* bodies for the click keys: every combination of the click flags
FlagBodies ==
    {Body(Rider(150, "downhill"), c, Component("fox", 200, f, None), s[1], s[2]) :
        c \in {Conditions("jumps", "dry"), Conditions("technical_roots", "wet")},
        f \in SUBSET ClickFlags,
        s \in ShockInputs({Component("other", 230, g, None) :
                              g \in {{}, {"has_lsr", "has_hsc"}, CapabilityFlags}})}

CalcInputs ==
    (ValidationBodies \X {MissingFile, File(FullStore)})
    \cup (ArithmeticBodies \X SpecsFiles)
    \cup (FlagBodies \X {MissingFile, File(FullStore)})

----------------------------------------------------------------------------
(* The handlers *)

Ok(body) == [kind |-> "ok", body |-> body]

\* FastAPI builds the BikeSetup from the body before it calls the handler
ValidateBody ==
    /\ pc = "validate"
    /\ LET r == BikeSetupNew(request.bike)
       IN  IF r.kind = "ok"
           THEN /\ setup' = Some(r.value)
                /\ response' = response
                /\ pc' = "handler"
           ELSE /\ setup' = setup
                /\ response' = Some(r)
                /\ pc' = "done"
    /\ UNCHANGED <<request, specs_file, logic_file, specs, logic_db>>

\* get_baseline_setup: SuspensionCalculator()
CalculatorInit ==
    /\ pc = "handler"
    /\ request.endpoint = "calculate-setup"
    /\ specs' = Some(LoadSpecs(specs_file))
    /\ pc' = "calculate"
    /\ UNCHANGED <<request, specs_file, logic_file, setup, logic_db, response>>

\* get_baseline_setup: .calculate_baseline(bike)
CalculateBaseline ==
    /\ pc = "calculate"
    /\ response' = Some(Ok(CalculateBaselineOf(Val(specs), Val(setup))))
    /\ pc' = "done"
    /\ UNCHANGED <<request, specs_file, logic_file, setup, specs, logic_db>>

InitCalc ==
    /\ \E in \in CalcInputs :
          /\ request = [endpoint |-> "calculate-setup", bike |-> in[1], symptom_id |-> ""]
          /\ specs_file = in[2]
    /\ logic_file = MissingFile
    /\ pc = "validate"
    /\ setup = None
    /\ specs = None
    /\ logic_db = None
    /\ response = None

NextCalc == ValidateBody \/ CalculatorInit \/ CalculateBaseline

SpecCalc == InitCalc /\ [][NextCalc]_vars

TypeCalc == pc \in {"validate", "handler", "calculate", "done"}

----------------------------------------------------------------------------
(* Rule files and request bodies the diagnoses are run on *)

MaxSolutions == 3
MaxPriority == 3

Solution(check, priority, fix) ==
    [logic_check |-> check, priority |-> priority, action |-> fix]

Rule(id, name, comp_name, solutions) ==
    [symptom_id |-> id, symptom_name |-> name,
     required_component |-> comp_name, solutions |-> solutions]

\* the checks the longer solution lists are built from
CoreChecks == {"always_true", "has_lsc", "has_coil"}

\* every kind of check: the sentinel, the seven flags, other fields of the
\* component, an inherited attribute, and names the component does not have
AllChecks ==
    CapabilityFlags \cup
    {"always_true", "brand", "travel_mm", "current_psi", "model_dump", "has_coil", ""}

\* solution lists of up to MaxSolutions entries; 'action' numbers the entries
SolutionLists ==
    UNION {{[i \in 1..n |-> Solution(cp[i][1], cp[i][2], i)] :
                cp \in [1..n -> CoreChecks \X (1..MaxPriority)]} : n \in 0..MaxSolutions}

SingleSolutionLists == {<<Solution(c, 1, 1)>> : c \in AllChecks}

ForkDive == Rule("fork_dive", "Fork dives", "fork",
                 <<Solution("has_lsc", 1, 1), Solution("always_true", 2, 2)>>)

\* a rule file: the rule under diagnosis behind another rule
RuleFile(comp_name, solutions) ==
    File(<<ForkDive, Rule("harsh", "Harsh ride", comp_name, solutions)>>)

\* two rules with the same id: the first one is used
DuplicateFile ==
    File(<<Rule("harsh", "Harsh ride", "shock", <<Solution("always_true", 2, 1)>>),
           Rule("harsh", "Harsh fork", "fork", <<Solution("always_true", 1, 1)>>)>>)

ComponentNames == {"fork", "shock"}
SymptomIds == {"harsh", "fork_dive", "pogo", ""}

FlagSets == {{}, DefaultFlags, CapabilityFlags} \cup {{f} : f \in CapabilityFlags}
PsiValues == {None, Some(0), Some(120)}

\* bodies for the ranking: with and without a shock, has_lsc on and off
RankingBodies ==
    {Body(Rider(150, t), Conditions("mix", "dry"), Component("fox", 160, f, None),
          s[1], s[2]) :
        t \in {"hardtail", "full_suspension_trail_enduro"},
        f \in {DefaultFlags, DefaultFlags \cup {"has_lsc"}},
        s \in ShockInputs({RearShock, Component("other", 200, DefaultFlags, None)})}

\* bodies for the checks: every flag alone, and the values of current_psi
CheckBodies ==
    UNION {{Body(Rider(150, "full_suspension_xc"), Conditions("mix", "dry"),
                 Component("fox", 120, f, p), s[1], s[2]) :
               s \in ShockInputs({Component("rockshox", 190, CapabilityFlags \ f, p)})} :
           f \in FlagSets, p \in PsiValues}

DiagInputs ==
    (RankingBodies \X {RuleFile(c, l) : c \in ComponentNames, l \in SolutionLists}
                   \X {"harsh"})
    \cup (CheckBodies \X {RuleFile(c, l) : c \in ComponentNames, l \in SingleSolutionLists}
                      \X {"harsh"})
    \cup ((RankingBodies \cup ValidationBodies)
            \X {MissingFile, UnparseableFile, File(<<>>), DuplicateFile,
                RuleFile("shock", <<Solution("always_true", 1, 1)>>)}
            \X SymptomIds)

\* diagnose_issue: DiagnosticAssistant()
AssistantInit ==
    /\ pc = "handler"
    /\ request.endpoint = "diagnose"
    /\ logic_db' = Some(LoadLogic(logic_file))
    /\ pc' = "diagnose"
    /\ UNCHANGED <<request, specs_file, logic_file, setup, specs, response>>

\* diagnose_issue: .diagnose_problem(bike, symptom_id)
DiagnoseProblem ==
    /\ pc = "diagnose"
    /\ response' = Some(Ok(DiagnoseProblemOf(Val(logic_db), Val(setup), request.symptom_id)))
    /\ pc' = "done"
    /\ UNCHANGED <<request, specs_file, logic_file, setup, specs, logic_db>>

InitDiag ==
    /\ \E in \in DiagInputs :
          /\ request = [endpoint |-> "diagnose", bike |-> in[1], symptom_id |-> in[3]]
          /\ logic_file = in[2]
    /\ specs_file = MissingFile
    /\ pc = "validate"
    /\ setup = None
    /\ specs = None
    /\ logic_db = None
    /\ response = None

NextDiag == ValidateBody \/ AssistantInit \/ DiagnoseProblem

SpecDiag == InitDiag /\ [][NextDiag]_vars

TypeDiag == pc \in {"validate", "handler", "diagnose", "done"}

----------------------------------------------------------------------------
(* Properties of calculate_baseline, checked under SpecCalc *)

\* the call has returned a value
Returned ==
    /\ pc = "done"
    /\ ~IsNone(setup)
    /\ ~IsNone(response)
    /\ Val(response).kind = "ok"

Out == Val(response).body
Bike == Val(setup)
CompOf(n) == IF n = "fork" THEN Bike.fork ELSE Val(Bike.shock)

ClickKeyFlags ==
    {<<"rebound", "has_rebound">>, <<"lsr", "has_lsr">>, <<"hsr", "has_hsr">>,
     <<"lsc", "has_lsc">>, <<"hsc", "has_hsc">>}

\* C4: for every component in the output of calculate_baseline the keys of
\* clicks are exactly the click types whose capability flag is true on that
\* component: rebound iff has_rebound, lsr iff has_lsr, hsr iff has_hsr,
\* lsc iff has_lsc, hsc iff has_hsc.
C4_ClickKeysMatchFlags ==
    Returned =>
        \A n \in DOMAIN Out :
            /\ DOMAIN Out[n].clicks \subseteq {p[1] : p \in ClickKeyFlags}
            /\ \A p \in ClickKeyFlags :
                  (p[1] \in DOMAIN Out[n].clicks) <=> CompOf(n)[p[2]]

\* a fork with only has_lsr and has_hsr got exactly those two keys, next to
\* a shock with only has_lsr and has_hsc
C4_Witness ==
    /\ Returned
    /\ ~Bike.fork.has_rebound /\ Bike.fork.has_lsr /\ Bike.fork.has_hsr
    /\ ~Bike.fork.has_lsc /\ ~Bike.fork.has_hsc
    /\ DOMAIN Out.fork.clicks = {"lsr", "hsr"}
    /\ "shock" \in DOMAIN Out
    /\ DOMAIN Out.shock.clicks = {"lsr", "hsc"}

\* C5: every click value calculate_baseline emits is >= 0, lsr equals the
\* final rebound and hsr equals the final rebound + 1, hence is >= 1.
C5_ClicksNonNegative ==
    Returned =>
        \A n \in DOMAIN Out :
            LET c == Out[n].clicks
            IN  /\ \A k \in DOMAIN c : c[k] >= 0
                /\ {"rebound", "lsr"} \subseteq DOMAIN c => c.lsr = c.rebound
                /\ {"rebound", "hsr"} \subseteq DOMAIN c => c.hsr = c.rebound + 1
                /\ {"lsr", "hsr"} \subseteq DOMAIN c => c.hsr = c.lsr + 1
                /\ "hsr" \in DOMAIN c => c.hsr >= 1

\* roots in the wet on a brand whose base values would go below zero: all
\* five clicks are emitted, rebound, lsc and hsc are held at 0
C5_Witness ==
    /\ Returned
    /\ Bike.conditions = Conditions("technical_roots", "wet")
    /\ LET d == BrandData(Val(specs), Bike.fork, "fork")
       IN  /\ DOMAIN d # {}
           /\ d.base_lsc - 3 < 0
           /\ d.base_hsc < 0
           /\ GetDynamicRebound(d, Bike.rider.weight_kg) - 2 < 0
    /\ DOMAIN Out.fork.clicks = {"rebound", "lsr", "hsr", "lsc", "hsc"}
    /\ Out.fork.clicks.rebound = 0
    /\ Out.fork.clicks.lsr = 0
    /\ Out.fork.clicks.hsr = 1
    /\ Out.fork.clicks.lsc = 0
    /\ Out.fork.clicks.hsc = 0

\* the psi_pct of each terrain and weather, in hundredths
TerrainPct == [flow |-> 100, jumps |-> 105, technical_roots |-> 98, mix |-> 100]
WeatherPct == [dry |-> 100, wet |-> 95, mix |-> 98]

\* the psi_multiplier in force for component n: the brand's, else the
\* fallback key's, else 1.0
MultiplierOf(n) ==
    LET section == Get(Val(specs), n \o "s", EmptyDict)
        own == Get(section, CompOf(n).brand, EmptyDict)
        fallback == Get(section, IF n = "fork" THEN "rockshox" ELSE "standard_air",
                        EmptyDict)
    IN  IF DOMAIN own # {} THEN Get(own, "psi_multiplier", 100)
        ELSE Get(fallback, "psi_multiplier", 100)

\* weight x multiplier truncated, then x terrain pct x weather pct truncated
TwoStagePsi(w, m, terrain, weather) ==
    Trunc(Trunc(w * m, WeightScale * PctScale) * TerrainPct[terrain] * WeatherPct[weather],
          PctScale * PctScale)

\* C10: psi is weight x psi_multiplier x terrain psi_pct x weather psi_pct,
\* the two percentages multiplied, truncated toward zero after
\* weight x psi_multiplier and again after the two percentages.
C10_PsiTwoStageProduct ==
    Returned =>
        \A n \in DOMAIN Out :
            Out[n].psi = TwoStagePsi(Bike.rider.weight_kg, MultiplierOf(n),
                                     Bike.conditions.terrain, Bike.conditions.weather)

\* weight 75, psi_multiplier 1.0, jumps, dry: psi 78
C10_Witness ==
    /\ Returned
    /\ Bike.rider.weight_kg = 75 * WeightScale
    /\ Bike.conditions = Conditions("jumps", "dry")
    /\ MultiplierOf("fork") = 100
    /\ Out.fork.psi = 78

\* every valid weight on the half-kilogram grid
GridWeights == (MinWeightKg * WeightScale + 1)..(MaxWeightKg * WeightScale)

\* the psi calculate_baseline gives component n when only the weight is w:
\* psi_mult, t_mod and w_mod do not depend on the weight
PsiAtWeight(n, w) ==
    FinalPsi(w, Get(BrandData(Val(specs), CompOf(n), n), "psi_multiplier", 100),
             TerrainModifiers[Bike.conditions.terrain],
             WeatherModifiers[Bike.conditions.weather])

\* C9: psi is non-negative, and with brand, terrain and weather fixed it is
\* non-decreasing in weight_kg: w1 <= w2 implies psi(w1) <= psi(w2).
C9_PsiMonotoneInWeight ==
    Returned =>
        \A n \in DOMAIN Out :
            LET psi_mult == Get(BrandData(Val(specs), CompOf(n), n), "psi_multiplier", 100)
                t_mod == TerrainModifiers[Bike.conditions.terrain]
                w_mod == WeatherModifiers[Bike.conditions.weather]
                mine == Bike.rider.weight_kg
            IN  /\ Out[n].psi >= 0
                /\ Out[n].psi = PsiAtWeight(n, mine)
                /\ \A w \in GridWeights :
                      /\ w >= mine => FinalPsi(w, psi_mult, t_mod, w_mod) >= Out[n].psi
                      /\ w <= mine => FinalPsi(w, psi_mult, t_mod, w_mod) <= Out[n].psi

\* a rider of 80.5 kg on a brand with multiplier 1.25 in the wet: psi is
\* strictly above the psi of the lightest rider and below the heaviest's
C9_Witness ==
    /\ Returned
    /\ Bike.rider.weight_kg = 161
    /\ Bike.conditions.weather = "wet"
    /\ MultiplierOf("fork") = 125
    /\ Out.fork.psi > PsiAtWeight("fork", 61)
    /\ Out.fork.psi < PsiAtWeight("fork", 300)

\* the store the calculator holds is empty
StoreEmpty == DOMAIN Val(specs) = {}

\* neither the brand of component n nor the fallback key of its type is a
\* key of the store's section for that type
BrandAndFallbackAbsent(n) ==
    LET section == Get(Val(specs), n \o "s", EmptyDict)
    IN  /\ CompOf(n).brand \notin DOMAIN section
        /\ (IF n = "fork" THEN "rockshox" ELSE "standard_air") \notin DOMAIN section

\* the store has a sag target for the rider's bike type and component n
HasSagTarget(n) ==
    LET targets == Get(Val(specs), "sag_targets", EmptyDict)
    IN  /\ Bike.rider.bike_type \in DOMAIN targets
        /\ n \in DOMAIN targets[Bike.rider.bike_type]

ClampedAtZero(v) == IF v < 0 THEN 0 ELSE v

\* the output for component n is the one computed from psi_multiplier 1.0,
\* base_lsc 2, base_hsc 1 and base rebound 6
FromDefaultCoefficients(n) ==
    LET t == TerrainModifiers[Bike.conditions.terrain]
        w == WeatherModifiers[Bike.conditions.weather]
        rebound == ClampedAtZero(6 + t.rebound + w.rebound)
        lsc == ClampedAtZero(2 + t.lsc + w.lsc)
        hsc == ClampedAtZero(1 + Get(t, "hsc", 0))
        c == Out[n].clicks
    IN  /\ Out[n].psi = TwoStagePsi(Bike.rider.weight_kg, 100,
                                    Bike.conditions.terrain, Bike.conditions.weather)
        /\ "rebound" \in DOMAIN c => c.rebound = rebound
        /\ "lsr" \in DOMAIN c => c.lsr = rebound
        /\ "hsr" \in DOMAIN c => c.hsr = rebound + 1
        /\ "lsc" \in DOMAIN c => c.lsc = lsc
        /\ "hsc" \in DOMAIN c => c.hsc = hsc

\* the sag of component n is the one computed from the fraction pct / 100
SagFromFraction(n, pct) ==
    /\ Out[n].sag_pct = pct
    /\ Out[n].sag_mm = Trunc(CompOf(n).travel_mm * pct, PctScale)

\* the call did not raise
NeverRaises ==
    pc = "done" /\ ~IsNone(setup) => Val(response).kind = "ok"

\* C8 as stated: with an empty store calculate_baseline never raises and
\* computes every component from psi_multiplier 1.0, base_lsc 2, base_hsc 1,
\* base rebound 6 and sag fraction 0.25, and the same defaults apply when the
\* brand and the fallback key are both absent from the store.
C8_AsStated ==
    /\ NeverRaises
    /\ Returned =>
          \A n \in DOMAIN Out :
              StoreEmpty \/ BrandAndFallbackAbsent(n) =>
                  FromDefaultCoefficients(n) /\ SagFromFraction(n, 25)

\* C8 amended: with an empty store calculate_baseline never raises and
\* computes every component from the five defaults; when the brand and the
\* fallback key are both absent from the store the four coefficient defaults
\* apply, and the sag fraction is 0.25 exactly when the store has no sag
\* target for the bike type and component, else it is that target.
C8_DefaultsWhenAbsent ==
    /\ NeverRaises
    /\ Returned =>
          \A n \in DOMAIN Out :
              /\ StoreEmpty => FromDefaultCoefficients(n) /\ SagFromFraction(n, 25)
              /\ BrandAndFallbackAbsent(n) =>
                    /\ FromDefaultCoefficients(n)
                    /\ ~HasSagTarget(n) => SagFromFraction(n, 25)
                    /\ HasSagTarget(n) =>
                          SagFromFraction(n, Val(specs).sag_targets[Bike.rider.bike_type][n])

\* a store with other brands and sag targets, a marzocchi fork on a trail
\* bike in the wet on roots: default coefficients, sag from the 0.20 target
C8_Witness ==
    /\ Returned
    /\ ~StoreEmpty
    /\ Bike.fork.brand = "marzocchi"
    /\ BrandAndFallbackAbsent("fork")
    /\ HasSagTarget("fork")
    /\ Bike.conditions = Conditions("technical_roots", "wet")
    /\ Out.fork.psi = TwoStagePsi(Bike.rider.weight_kg, 100, "technical_roots", "wet")
    /\ Out.fork.clicks.rebound = 4
    /\ Out.fork.clicks.lsc = 0
    /\ Out.fork.clicks.hsc = 1
    /\ Out.fork.sag_pct = 20
    /\ Out.fork.sag_mm = 32

\* the inputs of the body as given
GivenShock == request.bike.shock_given /\ ~IsNone(request.bike.shock)

----------------------------------------------------------------------------
(* Properties of diagnose_problem, checked under SpecDiag *)

\* the symptom ids of the records in the rule list
KnownIds == {Val(logic_db)[i].symptom_id : i \in 1..Len(Val(logic_db))}

\* the first record of the rule list with the symptom id of the request
Problem ==
    LET db == Val(logic_db)
        first == CHOOSE i \in 1..Len(db) :
                    /\ db[i].symptom_id = request.symptom_id
                    /\ \A j \in 1..(i - 1) : db[j].symptom_id # request.symptom_id
    IN  db[first]

\* the component the symptom needs is on the setup
RequiredPresent == Problem.required_component = "fork" \/ ~IsNone(Bike.shock)
Required == IF Problem.required_component = "fork" THEN Bike.fork ELSE Val(Bike.shock)

\* a known symptom was diagnosed on a setup that has the component
Diagnosed == Returned /\ request.symptom_id \in KnownIds /\ RequiredPresent

\* the solution is applicable in the sense of C1: the sentinel, or the name
\* of a capability flag that is true on the component
FlagApplies(comp, solution) ==
    \/ solution.logic_check = "always_true"
    \/ /\ solution.logic_check \in CapabilityFlags
       /\ comp[solution.logic_check]

HasFix == "primary_fix" \in DOMAIN Out

\* the solutions diagnose_problem returned
Returned_Fixes ==
    IF ~HasFix THEN {}
    ELSE {Out.primary_fix} \cup
         (IF IsNone(Out.secondary_fix) THEN {} ELSE {Val(Out.secondary_fix)})

\* C1: for a known symptom whose component is present a solution is kept
\* if and only if its logic_check is "always_true" or names a capability
\* flag that is true on the component; any other logic_check, also the name
\* of an attribute that is not a flag, excludes the solution.
C1_OnlySentinelOrTrueFlagApplies ==
    Diagnosed =>
        LET sols == Problem.solutions
            kept == {sols[i] : i \in {j \in 1..Len(sols) : FlagApplies(Required, sols[j])}}
        IN  /\ (kept = {}) <=> (Out = NoSolution)
            /\ Returned_Fixes \subseteq kept
            /\ Cardinality(kept) >= 2 <=> Cardinality(Returned_Fixes) = 2

\* i comes before j in the ranking: lower priority value first, list order
\* among equal priority values
Before(sols, i, j) ==
    \/ sols[i].priority < sols[j].priority
    \/ sols[i].priority = sols[j].priority /\ i < j

\* the solutions of the list that pass the test of the loop, by position
Applying(comp, sols) ==
    {i \in 1..Len(sols) :
        \/ sols[i].logic_check = "always_true"
        \/ GetattrTruthy(comp, sols[i].logic_check)}

\* C2: when a solution applies, primary_fix is the applicable solution with
\* the lowest priority value and secondary_fix the second in ascending
\* priority order, null when only one applies; equal priority values rank
\* in list order.
C2_RankedByPriorityStable ==
    Diagnosed =>
        LET sols == Problem.solutions
            app == Applying(Required, sols)
            top == CHOOSE i \in app : \A j \in app \ {i} : Before(sols, i, j)
            rest == app \ {top}
            next == CHOOSE i \in rest : \A j \in rest \ {i} : Before(sols, i, j)
        IN  /\ app = {} <=> ~HasFix
            /\ app # {} =>
                  /\ Out.symptom = Problem.symptom_name
                  /\ Out.primary_fix = sols[top]
                  /\ rest = {} => Out.secondary_fix = None
                  /\ rest # {} => Out.secondary_fix = Some(sols[next])

\* priorities [3,1,2], all always_true: primary is the priority-1 solution,
\* secondary the priority-2 solution
C2_Witness ==
    /\ Diagnosed
    /\ Len(Problem.solutions) = 3
    /\ \A i \in 1..3 : Problem.solutions[i].logic_check = "always_true"
    /\ Problem.solutions[1].priority = 3
    /\ Problem.solutions[2].priority = 1
    /\ Problem.solutions[3].priority = 2
    /\ Out.primary_fix = Problem.solutions[2]
    /\ Out.secondary_fix = Some(Problem.solutions[3])

\* C6: for a symptom_id that matches no record of the rule list, also when
\* the list is empty because the rule file was missing, diagnose_problem
\* returns the "symptom unknown" outcome as a value and no primary_fix or
\* secondary_fix.
C6_UnknownSymptomReported ==
    (pc = "done" /\ ~IsNone(setup) /\ request.symptom_id \notin KnownIds) =>
        /\ Val(response).kind = "ok"
        /\ Out = UnknownSymptom
        /\ "primary_fix" \notin DOMAIN Out
        /\ "secondary_fix" \notin DOMAIN Out

\* a rule list with other symptoms, asked for one it does not have
C6_Witness ==
    /\ Returned
    /\ Len(Val(logic_db)) > 0
    /\ request.symptom_id = "pogo"
    /\ request.symptom_id \notin KnownIds
    /\ Out = UnknownSymptom

\* C7: a known symptom whose required_component is shock, diagnosed on a
\* setup without a shock, gives the "component not present" outcome, which
\* is neither "symptom unknown" nor "no fix available", whatever its
\* solutions; a fix is returned only when the required component is present.
C7_MissingComponentReported ==
    (Returned /\ request.symptom_id \in KnownIds) =>
        /\ (Problem.required_component = "shock" /\ IsNone(Bike.shock)) =>
              /\ Out = ComponentMissing
              /\ Out # UnknownSymptom
              /\ Out # NoSolution
        /\ HasFix => RequiredPresent

\* a hardtail, a shock symptom with a solution that is always_true
C7_Witness ==
    /\ Returned
    /\ request.symptom_id \in KnownIds
    /\ Bike.rider.bike_type = "hardtail"
    /\ IsNone(Bike.shock)
    /\ Problem.required_component = "shock"
    /\ Len(Problem.solutions) > 0
    /\ \A i \in 1..Len(Problem.solutions) : Problem.solutions[i].logic_check = "always_true"
    /\ Out = ComponentMissing

====
